---- MODULE Spec2Model ----
(***************************************************************************)
(* Model of the running-session engine of MyNutrify: NRCRunningTracker     *)
(* (lifecycle, sample ledger, validity gate, split detection, stats).      *)
(*                                                                         *)
(* Units.  Time is the millisecond clock Date.now().  Positions lie on one *)
(* great circle (lat = 0): `pos` is the arc length from the origin in      *)
(* millimetres, so calculateDistance is the absolute difference of two     *)
(* positions (all positions used are within a few km, far from the         *)
(* antipode).  Distances that the code holds in km are held in mm.         *)
(* A pace (min/km) is held as an exact fraction (floating-point rounding   *)
(* of the last bit is not modelled).  Altitude and the statistics derived  *)
(* from it, average pace/speed and calories are not modelled.              *)
(***************************************************************************)
EXTENDS Integers, Sequences, FiniteSets, TLC

\* ---------------------------------------------------------------- bounds
MaxTicks == 2
MaxSamples == 3
\* Longest sequence of calls that is run, and then replayed after reset()
MaxScript == 4
\* Number of watches started on one GPSTracker
MaxWatches == 2
\* Number of getCurrentPosition calls on one GPSTracker
MaxCalls == 2
\* Number of getElevations calls on one ElevationService
MaxLookups == 2
\* Number of getElevations calls on the client's ElevationService when only getElevations is called
MaxOverlap == 3

\* Granularity of the modelled clock (ms between two observable instants).
TickMs == 160 * 1000
\* Date.now() at construction.
T0 == TickMs
MaxClock == T0 + MaxTicks * TickMs
\* Cap on the accumulated paused time (keeps the state space finite).
MaxPausedMs == MaxTicks * TickMs

\* Positions a fix may report (mm along the track) and accuracies (m).
Positions == {0, 1000 * 1000, 3000 * 1000}
Fixes == {[pos |-> p, accuracy |-> 5] : p \in Positions}
         \cup {[pos |-> 1000 * 1000, accuracy |-> 40]}

\* -------------------------------------------------------- program constants
SplitKm == 1000000
SplitMi == 621371
PACE_WINDOW_SIZE == 15
MaxAccuracy == 30

\* alpha = 0.3, held as tenths
ALPHA10 == 3
\* the pace floor 1.2 min/km (50 km/h), held as fifths
MinPace5 == 6

\* A pace (min/km) is an exact fraction n / m in lowest terms; m = 0 encodes `undefined`.
NoPace == [n |-> 0, m |-> 0]
ZeroPace == [n |-> 0, m |-> 1]

VARIABLES
  now,              \* Date.now()
  unit,             \* session.unit
  splitDistance,    \* session.splitDistance (mm)
  startedAt,        \* session.startedAt (0 = never started)
  isPaused,         \* session.isPaused
  totalPausedTime,  \* session.totalPausedTime (ms)
  samples,          \* session.samples
  laps,             \* session.laps
  totals,           \* session.totals
  paceWindow,       \* this.paceWindow
  lastSampleTime,   \* this.lastSampleTime
  gpsTracker,       \* this.gpsTracker: the status of the GPSTracker the session engine constructs for itself
  last,             \* observer: whether the last call was addSample, and the events the last call fired
  stopCalled,       \* observer: stop() was called on a started session since construction/reset
  pauseAt,          \* observer (until stop()): instant of the pause() that opened the current pause, 0 if none
  pausedSum,        \* observer (until stop()): sum of the closed pause intervals (ms)
  fired,            \* observer: the last of onPause and onResume fired since construction/reset ("none" if neither)
  run,              \* observer: the calls of the original run, its outcome, and the progress of the replay
  geolocation,      \* platform: navigator.geolocation exists
  status,           \* GPSTracker.status
  lastAcceptedPosition, \* GPSTracker.lastAcceptedPosition (NoPosition = null)
  retryCount,       \* GPSTracker.retryCount
  watches,          \* platform: the watches registered by watchPosition, by watch id
  inflight,         \* platform: positions acquired for a watch whose callback task is queued
  calls,            \* the getCurrentPosition calls: their promise, their pending request or retry timer
  positionUnavailable, \* observer: the platform has answered a getCurrentPosition request with POSITION_UNAVAILABLE
  forwarded,        \* observer: the last fix handed to a watch callback, and what the last step did with one
  raised,           \* observer: the exception the last call raised ("none" if it returned)
  side,             \* which ElevationService this is: the client's or the server's
  cache,            \* ElevationService.cache, by cache key (Undefined = no entry)
  pendingRequests,  \* ElevationService.pendingRequests, by cache key (NoPromise = no entry)
  lookups,          \* the getElevations calls: their position and their local variables
  fetches,          \* the requests sent to the elevation API, in the order they were sent
  known             \* observer: the points looked up with success since the last clearCache()

vars == <<now, unit, splitDistance, startedAt, isPaused, totalPausedTime,
          samples, laps, totals, paceWindow, lastSampleTime, gpsTracker,
          last, stopCalled, pauseAt, pausedSum, fired, run,
          geolocation, status, lastAcceptedPosition, retryCount, watches, inflight,
          calls, positionUnavailable, forwarded, raised,
          side, cache, pendingRequests, lookups, fetches, known>>

session == <<unit, splitDistance, startedAt, isPaused, totalPausedTime, samples, laps, totals>>
observer == <<stopCalled, pauseAt, pausedSum>>
\* the session engine with its observers
tracker == <<now, session, paceWindow, lastSampleTime, gpsTracker, fired, last, observer>>
\* the sensor adapter, the platform's location service and their observers
adapter == <<geolocation, status, lastAcceptedPosition, retryCount, watches, inflight,
             calls, positionUnavailable, forwarded, raised>>
\* what the calls of the session engine leave alone
\* the elevation service, the elevation API and their observers
elevation == <<side, cache, pendingRequests, lookups, fetches, known>>
others == <<run, adapter, gpsTracker, fired, elevation>>

\* ------------------------------------------------------------ pure helpers
Abs(x) == IF x < 0 THEN -x ELSE x

\* Math.round: nearest integer, halves towards +infinity.  RoundDiv(x, q) = Math.round(x / q).
RoundDiv(x, q) == (2 * x + q) \div (2 * q)

\* calculateDistance on the modelled great circle (mm).
calculateDistance(p1, p2) == Abs(p2 - p1)

SplitFor(u) == IF u = "km" THEN SplitKm ELSE SplitMi

RECURSIVE GCD(_, _)
GCD(a, b) == IF b = 0 THEN a ELSE GCD(b, a % b)

Frac(n, m) == LET g == GCD(n, m) IN [n |-> n \div g, m |-> m \div g]

\* JavaScript truthiness of an optional number held as a fraction.
Truthy(p) == p.m > 0 /\ p.n > 0

\* 60 / speedKmh for a segment of dist mm covered in ms milliseconds (both > 0):
\* (ms / 60000) min / (dist / 1000000) km = 50 * ms / (3 * dist) min/km.
PaceOf(ms, dist) == Frac(50 * ms, 3 * dist)

\* alpha * instant + (1 - alpha) * currentSmoothed with alpha = 0.3
Ema(instant, currentSmoothed) ==
  Frac(ALPHA10 * instant.n * currentSmoothed.m + (10 - ALPHA10) * currentSmoothed.n * instant.m,
       10 * instant.m * currentSmoothed.m)

\* Array.slice(start) on a sequence (start may be negative: counted from the end).
SliceFrom(seq, start) ==
  LET len  == Len(seq)
      from == IF start < 0 THEN (IF len + start < 0 THEN 0 ELSE len + start)
              ELSE (IF start > len THEN len ELSE start)
  IN  SubSeq(seq, from + 1, len)

\* samples.findIndex(s => s.timestamp >= cutoffTime): 0-based index of the first match, or -1
FirstSince(smp, cutoffTime) ==
  IF \E i \in 1..Len(smp) : smp[i].timestamp >= cutoffTime
  THEN (CHOOSE i \in 1..Len(smp) :
          /\ smp[i].timestamp >= cutoffTime
          /\ \A j \in 1..(i - 1) : smp[j].timestamp < cutoffTime) - 1
  ELSE -1

\* samples.findIndex(s => s.cumulativeDistance >= targetDistance): 0-based index of the first match, or -1
FirstReaching(smp, targetDistance) ==
  IF \E i \in 1..Len(smp) : smp[i].cumulativeDistance >= targetDistance
  THEN (CHOOSE i \in 1..Len(smp) :
          /\ smp[i].cumulativeDistance >= targetDistance
          /\ \A j \in 1..(i - 1) : smp[j].cumulativeDistance < targetDistance) - 1
  ELSE -1

\* -------------------------------------------------------------- GPSTracker
\* GPSTracker.maxRetries
maxRetries == 3

\* GPSTracker.defaultOptions and the options the running page passes to startWatching
\* (distanceFilter in mm, accuracyThreshold in m)
DefaultOptions == [distanceFilter |-> 3000, accuracyThreshold |-> 20]
PageOptions == [distanceFilter |-> 2000, accuracyThreshold |-> 25]
WatchOptions == {DefaultOptions, PageOptions}

\* Raw fixes the platform may acquire: 2.5 m, 3.5 m or 6 m apart; accurate for both
\* option sets (5 m), for the page's only (22 m), for neither (60 m).
RawPositions == {0, 2500, 6000}
RawFixes == {[pos |-> p, accuracy |-> a] : p \in RawPositions, a \in {5, 22, 60}}

\* null, for a position
NoPosition == [pos |-> -1, accuracy |-> -1]

\* GeolocationPositionError.code
ErrorCodes == {"PERMISSION_DENIED", "POSITION_UNAVAILABLE", "TIMEOUT"}

\* getSignalQuality(accuracy)
getSignalQuality(accuracy) ==
  IF accuracy <= 5 THEN "excellent"
  ELSE IF accuracy <= 10 THEN "good"
  ELSE IF accuracy <= 20 THEN "fair"
  ELSE IF accuracy <= 50 THEN "poor"
  ELSE "unavailable"

\* handleLocationError(error): the status after the call
handleLocationError(st, code) ==
  LET st1 == [st EXCEPT !.signalQuality = "unavailable"]
  IN  IF code = "PERMISSION_DENIED" THEN [st1 EXCEPT !.hasPermission = FALSE]
      ELSE IF code = "POSITION_UNAVAILABLE" THEN [st1 EXCEPT !.isAvailable = FALSE]
      ELSE st1

\* GPSTracker.status as the field initialiser and the constructor leave it
NewStatus == [isAvailable |-> geolocation, hasPermission |-> FALSE, isTracking |-> FALSE,
              lastUpdate |-> 0, signalQuality |-> "unavailable"]

\* new GPSTracker(), the adapter the running page constructs and watches with
NewGPSTracker ==
  /\ status = NewStatus
  /\ lastAcceptedPosition = NoPosition
  /\ retryCount = 0

\* A getCurrentPosition call that was not made yet.  phase: idle, pending (a request is
\* with the platform), waiting (the retry timer runs), done (the chain of attempts ended);
\* timer: the timeout timer of the current attempt is armed; attempts: requests made to
\* the platform; settled: "no", "resolved", or the error the promise was rejected with;
\* cause: what settled the promise: the platform's answer ("fix" or an error code), "timer"
\* (the timeout timer fired first) or "none" (no request was made); result: the fix.
NoCall == [phase |-> "idle", timer |-> FALSE, attempts |-> 0, settled |-> "no",
           cause |-> "none", result |-> NoPosition]

\* The platform's location service before any request, with (g) or without navigator.geolocation.
Platform(g) ==
  /\ geolocation = g
  /\ watches = <<>>
  /\ inflight = <<>>
  /\ calls = [c \in 1..MaxCalls |-> NoCall]
  /\ positionUnavailable = FALSE
  /\ forwarded = [fix |-> NoPosition, outcome |-> "none", watch |-> 0]
  /\ raised = "none"

\* startWatching(callback, options)
StartWatching(options) ==
  /\ Len(watches) < MaxWatches
  /\ IF ~status.isAvailable
     THEN /\ raised' = "Error"
          /\ UNCHANGED <<status, watches>>
     ELSE /\ raised' = "none"
          /\ status' = [status EXCEPT !.isTracking = TRUE]
          /\ watches' = Append(watches, [options |-> options, cleared |-> FALSE, accurateSeen |-> FALSE])
  /\ forwarded' = [forwarded EXCEPT !.outcome = "none"]
  /\ UNCHANGED <<geolocation, lastAcceptedPosition, retryCount, inflight, calls, positionUnavailable>>

\* The platform acquires a position for a registered watch and queues the task that
\* calls the watch's success callback.
Acquire(watchId, coords) ==
  /\ inflight = <<>>
  /\ ~watches[watchId].cleared
  /\ inflight' = <<[watch |-> watchId, coords |-> coords]>>
  /\ forwarded' = [forwarded EXCEPT !.outcome = "none"]
  /\ raised' = "none"
  /\ UNCHANGED <<geolocation, status, lastAcceptedPosition, retryCount, watches, calls, positionUnavailable>>

\* The success callback of startWatching returns without forwarding the position.
Skip ==
  /\ forwarded' = [forwarded EXCEPT !.outcome = "skipped"]
  /\ UNCHANGED <<status, lastAcceptedPosition>>

\* The success callback of startWatching forwards the position to callback.
Forward(watchId, coords) ==
  /\ status' = [status EXCEPT !.lastUpdate = now,
                              !.signalQuality = getSignalQuality(coords.accuracy),
                              !.hasPermission = TRUE]
  /\ lastAcceptedPosition' = coords
  /\ forwarded' = [fix |-> coords, outcome |-> "handed", watch |-> watchId]

\* The success callback of startWatching without its distance filter
OnPositionUnfiltered(watchId, coords) ==
  LET gpsOptions == watches[watchId].options
  IN  IF coords.accuracy > gpsOptions.accuracyThreshold THEN Skip
      ELSE Forward(watchId, coords)

\* The success callback that startWatching hands to watchPosition
OnPosition(watchId, coords) ==
  LET gpsOptions == watches[watchId].options
  IN  IF coords.accuracy > gpsOptions.accuracyThreshold THEN Skip
      ELSE IF /\ lastAcceptedPosition # NoPosition
              /\ gpsOptions.distanceFilter > 0
              /\ calculateDistance(lastAcceptedPosition.pos, coords.pos) < gpsOptions.distanceFilter
           THEN Skip
      ELSE Forward(watchId, coords)

\* The queued task runs: the platform calls the success callback.  The platform does so
\* whether or not clearWatch was called since the position was acquired; the callback
\* itself consults no flag of the adapter.
Deliver ==
  /\ inflight # <<>>
  /\ LET d == Head(inflight)
     IN  /\ OnPosition(d.watch, d.coords)
         /\ watches' = [watches EXCEPT ![d.watch].accurateSeen =
                          @ \/ d.coords.accuracy <= watches[d.watch].options.accuracyThreshold]
  /\ inflight' = Tail(inflight)
  /\ raised' = "none"
  /\ UNCHANGED <<geolocation, retryCount, calls, positionUnavailable>>

\* The platform discards the queued task of a watch that was cleared meanwhile.
Discard ==
  /\ inflight # <<>>
  /\ watches[Head(inflight).watch].cleared
  /\ inflight' = Tail(inflight)
  /\ forwarded' = [forwarded EXCEPT !.outcome = "none"]
  /\ raised' = "none"
  /\ UNCHANGED <<geolocation, status, lastAcceptedPosition, retryCount, watches, calls, positionUnavailable>>

\* The error callback that startWatching hands to watchPosition
OnWatchError(watchId, code) ==
  /\ ~watches[watchId].cleared
  /\ status' = IF code # "POSITION_UNAVAILABLE" THEN handleLocationError(status, code)
               ELSE [status EXCEPT !.signalQuality = "unavailable"]
  /\ forwarded' = [forwarded EXCEPT !.outcome = "none"]
  /\ raised' = "none"
  /\ UNCHANGED <<geolocation, lastAcceptedPosition, retryCount, watches, inflight, calls, positionUnavailable>>

\* stopWatching(watchId), for any watch id startWatching has returned
StopWatching(watchId) ==
  /\ status' = [status EXCEPT !.isTracking = FALSE]
  /\ watches' = [watches EXCEPT ![watchId].cleared = TRUE]
  /\ forwarded' = [forwarded EXCEPT !.outcome = "none"]
  /\ raised' = "none"
  /\ UNCHANGED <<geolocation, lastAcceptedPosition, retryCount, inflight, calls, positionUnavailable>>

\* Fixes the platform may answer a getCurrentPosition request with: accurate (5 m) or not (60 m)
OneShotFixes == {[pos |-> 0, accuracy |-> a] : a \in {5, 60}}

\* resolve(...) or reject(...) on the promise getCurrentPosition returned: only the first
\* settlement of a promise has an effect.
Settle(call, outcome, cause, result) ==
  IF call.settled = "no"
  THEN [call EXCEPT !.settled = outcome, !.cause = cause, !.result = result]
  ELSE call

\* getLocalizedError that reports a refused permission as an unavailable position
getLocalizedErrorConfused(code) ==
  IF code = "TIMEOUT" THEN "Timeout" ELSE "Unavailable"

\* getLocalizedError(error): the kind of the error it builds
getLocalizedError(code) ==
  IF code = "PERMISSION_DENIED" THEN "PermissionDenied"
  ELSE IF code = "POSITION_UNAVAILABLE" THEN "Unavailable"
  ELSE "Timeout"

\* attemptGetPosition(options), up to the request to the platform: the call afterwards
attemptGetPosition(call) ==
  IF ~status.isAvailable
  THEN Settle([call EXCEPT !.phase = "done", !.timer = FALSE], "Unavailable", "none", NoPosition)
  ELSE [call EXCEPT !.phase = "pending", !.timer = TRUE, !.attempts = @ + 1]

\* getCurrentPosition(), the calls being numbered in the order they are made
GetCurrentPosition(c) ==
  /\ calls[c].phase = "idle"
  /\ IF c = 1 THEN TRUE ELSE calls[c - 1].phase # "idle"
  /\ calls' = [calls EXCEPT ![c] = attemptGetPosition(@)]
  /\ forwarded' = [forwarded EXCEPT !.outcome = "none"]
  /\ raised' = "none"
  /\ UNCHANGED <<geolocation, status, lastAcceptedPosition, retryCount, watches, inflight,
                 positionUnavailable>>

\* The success callback of attemptGetPosition: the platform answers the request of call c
OnFix(c, coords) ==
  /\ calls[c].phase = "pending"
  /\ IF coords.accuracy > DefaultOptions.accuracyThreshold /\ retryCount < maxRetries
     THEN /\ retryCount' = retryCount + 1
          /\ calls' = [calls EXCEPT ![c].phase = "waiting", ![c].timer = FALSE]
          /\ UNCHANGED status
     ELSE /\ retryCount' = 0
          /\ status' = [status EXCEPT !.hasPermission = TRUE,
                                      !.lastUpdate = now,
                                      !.signalQuality = getSignalQuality(coords.accuracy)]
          /\ calls' = [calls EXCEPT ![c] =
                         Settle([@ EXCEPT !.phase = "done", !.timer = FALSE], "resolved", "fix", coords)]
  /\ forwarded' = [forwarded EXCEPT !.outcome = "none"]
  /\ raised' = "none"
  /\ UNCHANGED <<geolocation, lastAcceptedPosition, watches, inflight, positionUnavailable>>

\* The error callback of attemptGetPosition: the platform fails the request of call c
OnFixError(c, code) ==
  /\ calls[c].phase = "pending"
  /\ status' = handleLocationError(status, code)
  /\ IF retryCount < maxRetries
     THEN /\ retryCount' = retryCount + 1
          /\ calls' = [calls EXCEPT ![c].phase = "waiting", ![c].timer = FALSE]
     ELSE /\ retryCount' = 0
          /\ calls' = [calls EXCEPT ![c] =
                         Settle([@ EXCEPT !.phase = "done", !.timer = FALSE],
                                getLocalizedError(code), code, NoPosition)]
  /\ positionUnavailable' = (positionUnavailable \/ code = "POSITION_UNAVAILABLE")
  /\ forwarded' = [forwarded EXCEPT !.outcome = "none"]
  /\ raised' = "none"
  /\ UNCHANGED <<geolocation, lastAcceptedPosition, watches, inflight>>

\* The timeout timer of the current attempt of call c fires before the platform has answered
OnTimeout(c) ==
  /\ calls[c].phase = "pending"
  /\ calls[c].timer
  /\ calls' = [calls EXCEPT ![c] = Settle([@ EXCEPT !.timer = FALSE], "Timeout", "timer", NoPosition)]
  /\ forwarded' = [forwarded EXCEPT !.outcome = "none"]
  /\ raised' = "none"
  /\ UNCHANGED <<geolocation, status, lastAcceptedPosition, retryCount, watches, inflight,
                 positionUnavailable>>

\* The retry timer of call c fires: attemptGetPosition(options) again
OnRetry(c) ==
  /\ calls[c].phase = "waiting"
  /\ calls' = [calls EXCEPT ![c] = attemptGetPosition(@)]
  /\ forwarded' = [forwarded EXCEPT !.outcome = "none"]
  /\ raised' = "none"
  /\ UNCHANGED <<geolocation, status, lastAcceptedPosition, retryCount, watches, inflight,
                 positionUnavailable>>

\* --------------------------------------------------------- ElevationService
\* Points whose elevation is asked for: latitudes in units of 0.00001 degree on one
\* meridian.  0 and 4 round to the same fourth decimal, 12 to the next.
ElevPoints == {0, 4, 12}
\* The point lists getElevations is called with
ElevRequests == {<<0>>, <<12>>, <<4, 12>>}

\* ElevationService.MAX_RETRIES of the server's service
MAX_RETRIES == 3

\* getCacheKey that keeps every decimal of the coordinates
getCacheKeyExact(p) == p

\* getCacheKey(lat, lon): Number(lat.toFixed(4)), in units of 0.0001 degree
getCacheKey(p) == (p + 5) \div 10

ElevKeys == {getCacheKey(p) : p \in ElevPoints}

\* Map.get(key) === undefined
Undefined == -1
\* pendingRequests.get(key) when the map has no entry
NoPromise == [fetch |-> 0, point |-> -1]

\* The elevation the API reports for a point (m)
ElevationAt(p) == 100 + p

Sides == {"client", "server"}

\* A getElevations call that was not made yet.  phase: idle, awaiting (the promises found
\* in pendingRequests), fetching (its own request is with the API), returned.
NoLookup == [phase |-> "idle", points |-> <<>>, pendingPromises |-> <<>>,
             pointsToFetch |-> <<>>, results |-> <<>>]

\* new ElevationService(), on which n calls of getElevations will be made
NewElevationService(s, n) ==
  /\ side = s
  /\ cache = [k \in ElevKeys |-> Undefined]
  /\ pendingRequests = [k \in ElevKeys |-> NoPromise]
  /\ lookups = [c \in 1..n |-> NoLookup]
  /\ fetches = <<>>
  /\ known = {}

\* The last point of pts with cache key k
LastWithKey(pts, k) ==
  pts[CHOOSE i \in 1..Len(pts) :
        /\ getCacheKey(pts[i]) = k
        /\ \A j \in (i + 1)..Len(pts) : getCacheKey(pts[j]) # k]

\* The results the API answers a request for pts with: the points echoed, each with its elevation
FetchedResults(pts) ==
  [i \in 1..Len(pts) |-> [point |-> pts[i], elevation |-> ElevationAt(pts[i])]]

\* The value of a promise stored in pendingRequests once its request has succeeded:
\* results.find(r => |r.lat - point.lat| < 0.0001 ...)?.elevation || 0
PromisedElevation(promise) ==
  LET results == FetchedResults(fetches[promise.fetch].points)
      found   == {i \in 1..Len(results) : Abs(results[i].point - promise.point) < 10}
  IN  IF found = {} THEN 0
      ELSE results[CHOOSE i \in found : \A j \in found : i <= j].elevation

\* The default elevation of 0 for each of pts
Fallback(pts) == [i \in 1..Len(pts) |-> [point |-> pts[i], elevation |-> 0]]

\* fetchFromAPI(pointsToFetch) is called and, in the client, its promise is stored in
\* pendingRequests under the key of every point
SendRequest(c, pts) ==
  /\ fetches' = Append(fetches, [points |-> pts, state |-> "inflight", attempt |-> 1, owner |-> c])
  /\ pendingRequests' =
       IF side = "client"
       THEN [k \in ElevKeys |->
               IF \E i \in 1..Len(pts) : getCacheKey(pts[i]) = k
               THEN [fetch |-> Len(fetches) + 1, point |-> LastWithKey(pts, k)]
               ELSE pendingRequests[k]]
       ELSE pendingRequests

\* pendingRequests.delete(key) for every point of pts (the client)
DeletePending(pts) ==
  IF side = "client"
  THEN [k \in ElevKeys |->
          IF \E i \in 1..Len(pts) : getCacheKey(pts[i]) = k THEN NoPromise ELSE pendingRequests[k]]
  ELSE pendingRequests

\* getElevations(points), up to its first await: the cache and pending check of every
\* point, then the request for the points to fetch unless promises are to be awaited first.
\* The server's service (getElevations, processBatch) has no pendingRequests.
GetElevations(c, points) ==
  LET isCached(p)  == cache[getCacheKey(p)] # Undefined
      isPending(p) == side = "client" /\ ~isCached(p) /\ pendingRequests[getCacheKey(p)] # NoPromise
      isMissing(p) == ~isCached(p) /\ ~isPending(p)
      hits     == SelectSeq(points, isCached)
      awaited  == SelectSeq(points, isPending)
      results  == [i \in 1..Len(hits) |->
                     [point |-> hits[i], elevation |-> cache[getCacheKey(hits[i])]]]
      pendingPromises == [i \in 1..Len(awaited) |->
                            [point |-> awaited[i], promise |-> pendingRequests[getCacheKey(awaited[i])]]]
      pointsToFetch == SelectSeq(points, isMissing)
      lookup(phase) == [phase |-> phase, points |-> points, pendingPromises |-> pendingPromises,
                        pointsToFetch |-> pointsToFetch, results |-> results]
  IN  /\ lookups[c].phase = "idle"
      /\ IF c = 1 THEN TRUE ELSE lookups[c - 1].phase # "idle"
      /\ IF Len(awaited) > 0
         THEN /\ lookups' = [lookups EXCEPT ![c] = lookup("awaiting")]
              /\ UNCHANGED <<fetches, pendingRequests>>
         ELSE IF Len(pointsToFetch) > 0
         THEN /\ lookups' = [lookups EXCEPT ![c] = lookup("fetching")]
              /\ SendRequest(c, pointsToFetch)
         ELSE /\ lookups' = [lookups EXCEPT ![c] = lookup("returned")]
              /\ UNCHANGED <<fetches, pendingRequests>>
      /\ UNCHANGED <<side, cache, known>>

\* getElevations resumes once the promises it awaits are settled: the results of the
\* awaited promises, then the request for the points it had found missing
AwaitPending(c) ==
  LET l == lookups[c]
      awaitedResults == [i \in 1..Len(l.pendingPromises) |->
                           [point |-> l.pendingPromises[i].point,
                            elevation |->
                              IF fetches[l.pendingPromises[i].promise.fetch].state = "ok"
                              THEN PromisedElevation(l.pendingPromises[i].promise)
                              ELSE 0]]
  IN  /\ l.phase = "awaiting"
      /\ \A i \in 1..Len(l.pendingPromises) :
           fetches[l.pendingPromises[i].promise.fetch].state \in {"ok", "failed"}
      /\ IF Len(l.pointsToFetch) > 0
         THEN /\ lookups' = [lookups EXCEPT ![c].phase = "fetching",
                                            ![c].results = @ \o awaitedResults]
              /\ SendRequest(c, l.pointsToFetch)
         ELSE /\ lookups' = [lookups EXCEPT ![c].phase = "returned",
                                            ![c].results = @ \o awaitedResults]
              /\ UNCHANGED <<fetches, pendingRequests>>
      /\ UNCHANGED <<side, cache, known>>

\* The API answers request f, and the call that sent it resumes after its await: with
\* the results it fills the cache; on an error the server's fetchFromAPI tries again
\* (MAX_RETRIES attempts in all), and the catch block returns the default elevation
Respond(f, ok) ==
  LET pts == fetches[f].points
      c   == fetches[f].owner
  IN  /\ fetches[f].state = "inflight"
      /\ IF ok
         THEN /\ fetches' = [fetches EXCEPT ![f].state = "ok"]
              /\ cache' = [k \in ElevKeys |->
                             IF \E i \in 1..Len(pts) : getCacheKey(pts[i]) = k
                             THEN ElevationAt(LastWithKey(pts, k))
                             ELSE cache[k]]
              /\ lookups' = [lookups EXCEPT ![c].phase = "returned",
                                            ![c].results = @ \o FetchedResults(pts)]
              /\ pendingRequests' = DeletePending(pts)
              /\ known' = known \cup {pts[i] : i \in 1..Len(pts)}
         ELSE IF side = "server" /\ fetches[f].attempt < MAX_RETRIES
         THEN /\ fetches' = [fetches EXCEPT ![f].state = "backoff"]
              /\ UNCHANGED <<cache, lookups, pendingRequests, known>>
         ELSE /\ fetches' = [fetches EXCEPT ![f].state = "failed"]
              /\ lookups' = [lookups EXCEPT ![c].phase = "returned",
                                            ![c].results = @ \o Fallback(pts)]
              /\ pendingRequests' = DeletePending(pts)
              /\ UNCHANGED <<cache, known>>
      /\ UNCHANGED side

\* The server's fetchFromAPI sends the request again after its delay
RetryRequest(f) ==
  /\ fetches[f].state = "backoff"
  /\ fetches' = [fetches EXCEPT ![f].state = "inflight", ![f].attempt = @ + 1]
  /\ UNCHANGED <<side, cache, pendingRequests, lookups, known>>

\* clearCache()
ClearCache ==
  /\ cache' = [k \in ElevKeys |-> Undefined]
  /\ pendingRequests' = IF side = "client" THEN [k \in ElevKeys |-> NoPromise] ELSE pendingRequests
  /\ known' = {}
  /\ UNCHANGED <<side, lookups, fetches>>

\* ------------------------------------------------------- NRCRunningTracker
\* createSample that measures each sample from the first sample of the ledger
\* (net displacement) instead of adding the segment to the previous cumulative distance
createSampleDisplacement(smp, coords, timestamp) ==
  IF Len(smp) = 0
  THEN [pos |-> coords.pos, timestamp |-> timestamp, cumulativeDistance |-> 0,
        accuracy |-> coords.accuracy, instantPace |-> NoPace, smoothedPace |-> NoPace]
  ELSE LET previousSample     == smp[Len(smp)]
           cumulativeDistance == calculateDistance(smp[1].pos, coords.pos)
           timeDiff           == timestamp - previousSample.timestamp
           distanceDiff       == cumulativeDistance - previousSample.cumulativeDistance
       IN  [pos |-> coords.pos, timestamp |-> timestamp,
            cumulativeDistance |-> cumulativeDistance,
            accuracy |-> coords.accuracy,
            instantPace |-> IF timeDiff > 0 /\ distanceDiff > 0
                            THEN PaceOf(timeDiff, distanceDiff) ELSE NoPace,
            smoothedPace |-> NoPace]

\* createSample(coords, timestamp) against the ledger smp
createSample(smp, coords, timestamp) ==
  IF Len(smp) = 0
  THEN [pos |-> coords.pos, timestamp |-> timestamp, cumulativeDistance |-> 0,
        accuracy |-> coords.accuracy, instantPace |-> NoPace, smoothedPace |-> NoPace]
  ELSE LET previousSample     == smp[Len(smp)]
           segmentDistance    == calculateDistance(previousSample.pos, coords.pos)
           cumulativeDistance == previousSample.cumulativeDistance + segmentDistance
           timeDiff           == timestamp - previousSample.timestamp
           distanceDiff       == cumulativeDistance - previousSample.cumulativeDistance
       IN  [pos |-> coords.pos, timestamp |-> timestamp,
            cumulativeDistance |-> cumulativeDistance,
            accuracy |-> coords.accuracy,
            instantPace |-> IF timeDiff > 0 /\ distanceDiff > 0
                            THEN PaceOf(timeDiff, distanceDiff) ELSE NoPace,
            smoothedPace |-> NoPace]

\* isValidSample without its filter of unrealistic speeds
isValidSampleAnySpeed(smp, sample) ==
  IF Len(smp) = 0 THEN TRUE
  ELSE IF sample.accuracy > 0 /\ sample.accuracy > MaxAccuracy THEN FALSE
  ELSE TRUE

\* isValidSample(sample) against the ledger smp
isValidSample(smp, sample) ==
  IF Len(smp) = 0 THEN TRUE
  ELSE IF Truthy(sample.instantPace) /\ 5 * sample.instantPace.n < MinPace5 * sample.instantPace.m
       THEN FALSE
  ELSE IF sample.accuracy > 0 /\ sample.accuracy > MaxAccuracy THEN FALSE
  ELSE TRUE

\* updatePaceWindow(sample): smp is the ledger with sample already pushed.
\* Returns the new pace window and the sample with its smoothed pace.
updatePaceWindow(pw, smp, sample) ==
  IF ~Truthy(sample.instantPace) THEN [paceWindow |-> pw, sample |-> sample]
  ELSE LET pushed      == Append(pw, sample.instantPace)
           cutoffTime  == sample.timestamp - PACE_WINDOW_SIZE * 1000
           cutoffIndex == FirstSince(smp, cutoffTime)
           window      == IF cutoffIndex > 0
                          THEN SliceFrom(pushed, Len(pushed) - (Len(smp) - cutoffIndex))
                          ELSE pushed
           currentSmoothed == IF Truthy(sample.smoothedPace) THEN sample.smoothedPace
                              ELSE sample.instantPace
       IN  [paceWindow |-> window,
            sample |-> IF Len(window) > 0
                       THEN [sample EXCEPT !.smoothedPace = Ema(sample.instantPace, currentSmoothed)]
                       ELSE sample]

\* calculateLapStats(lap): the split pace of the lap (elevation is not modelled)
calculateLapStats(smp, lap) ==
  LET n == IF lap.endSampleIndex + 1 > lap.startSampleIndex
           THEN lap.endSampleIndex + 1 - lap.startSampleIndex ELSE 0
  IN  IF n < 2 THEN lap
      ELSE LET pace == IF lap.distance > 0 /\ lap.duration > 0
                       THEN PaceOf(lap.duration * 1000, lap.distance) ELSE ZeroPace
           IN  [lap EXCEPT !.splitPace = pace, !.avgPace = pace]

\* createLap(lapIndex): the lap sequence after the call (smp already holds the new sample)
createLap(lps, smp, split, lapIndex) ==
  LET targetDistance == lapIndex * split
      startIdx == IF lapIndex = 1 THEN 0
                  ELSE IF lapIndex - 1 <= Len(lps) THEN lps[lapIndex - 1].endSampleIndex + 1
                  ELSE 0
      endIdx   == FirstReaching(smp, targetDistance)
  IN  IF endIdx = -1 THEN lps
      ELSE LET startSample == smp[startIdx + 1]
               endSample   == smp[endIdx + 1]
               lap == [index |-> lapIndex,
                       startSampleIndex |-> startIdx,
                       endSampleIndex |-> endIdx,
                       distance |-> endSample.cumulativeDistance - startSample.cumulativeDistance,
                       duration |-> (endSample.timestamp - startSample.timestamp) \div 1000,
                       avgPace |-> ZeroPace,
                       splitPace |-> ZeroPace,
                       timestamp |-> endSample.timestamp]
           IN  Append(lps, calculateLapStats(smp, lap))

\* checkForSplit(sample): the lap sequence after the call
checkForSplit(lps, smp, split, sample) ==
  LET expectedLapCount == sample.cumulativeDistance \div split
  IN  IF expectedLapCount > Len(lps) THEN createLap(lps, smp, split, expectedLapCount) ELSE lps

\* updateTotals(): session.totals after the call
updateTotals(tot, smp) ==
  IF Len(smp) = 0 THEN tot
  ELSE [tot EXCEPT !.distance = smp[Len(smp)].cumulativeDistance]

\* isRunning()
isRunning == startedAt > 0 /\ ~isPaused

\* getStats(userProfile): the value returned at instant t from a session with the given totals
\* (distance in m, duration in tenths of a minute)
StatsOf(t, tot) ==
  LET durationMs == IF startedAt > 0 THEN t - startedAt - totalPausedTime ELSE 0
  IN  [distance |-> RoundDiv(tot.distance, 1000),
       duration |-> RoundDiv(durationMs, 6000),
       coordinatesCount |-> Len(samples),
       totalLaps |-> Len(laps),
       currentLap |-> Len(laps) + 1,
       gpsQuality |-> gpsTracker.signalQuality]

getStats == StatsOf(now, updateTotals(totals, samples))

\* ------------------------------------------------------------------ state
\* constructor(unit, events)
ConstructWith(u) ==
  /\ gpsTracker = NewStatus
  /\ now = T0
  /\ unit = u
  /\ splitDistance = SplitFor(unit)
  /\ startedAt = 0
  /\ isPaused = FALSE
  /\ totalPausedTime = 0
  /\ samples = <<>>
  /\ laps = <<>>
  /\ totals = [distance |-> 0]
  /\ paceWindow = <<>>
  /\ lastSampleTime = 0
  /\ last = [addSample |-> FALSE, events |-> <<>>]
  /\ stopCalled = FALSE
  /\ pauseAt = 0
  /\ pausedSum = 0
  /\ fired = "none"

\* The clock advances between two calls.
Tick ==
  /\ now + TickMs <= MaxClock
  /\ now' = now + TickMs
  /\ UNCHANGED <<session, paceWindow, lastSampleTime, last, observer>>

\* The observer closes the pause interval opened by pause() when the session resumes;
\* it follows the pause intervals of a session until stop() is called on it.
ObserveResume ==
  IF pauseAt > 0 /\ ~stopCalled
  THEN /\ pausedSum' = pausedSum + (now - pauseAt)
       /\ pauseAt' = 0
  ELSE UNCHANGED <<pauseAt, pausedSum>>

\* start()
Start ==
  /\ IF startedAt = 0
     THEN /\ startedAt' = now
          /\ lastSampleTime' = now
          /\ totalPausedTime' = totalPausedTime
          /\ last' = [addSample |-> FALSE, events |-> <<>>]
     ELSE IF isPaused
     THEN /\ totalPausedTime + (now - lastSampleTime) <= MaxPausedMs
          /\ totalPausedTime' = totalPausedTime + (now - lastSampleTime)
          /\ last' = [addSample |-> FALSE, events |-> <<"onResume">>]
          /\ UNCHANGED <<startedAt, lastSampleTime>>
     ELSE /\ last' = [addSample |-> FALSE, events |-> <<>>]
          /\ UNCHANGED <<startedAt, lastSampleTime, totalPausedTime>>
  /\ isPaused' = FALSE
  /\ ObserveResume
  /\ UNCHANGED <<now, unit, splitDistance, samples, laps, totals, paceWindow, stopCalled>>

\* resume()
Resume == Start

\* pause() that does not record the pause instant
PauseWithoutStamp ==
  /\ IF ~isPaused
     THEN /\ isPaused' = TRUE
          /\ last' = [addSample |-> FALSE, events |-> <<"onPause">>]
          /\ pauseAt' = IF startedAt > 0 /\ ~stopCalled THEN now ELSE pauseAt
          /\ UNCHANGED lastSampleTime
     ELSE /\ last' = [addSample |-> FALSE, events |-> <<>>]
          /\ UNCHANGED <<isPaused, lastSampleTime, pauseAt>>
  /\ UNCHANGED <<now, unit, splitDistance, startedAt, totalPausedTime, samples, laps, totals,
                 paceWindow, stopCalled, pausedSum>>

\* pause()
Pause ==
  /\ IF ~isPaused
     THEN /\ isPaused' = TRUE
          /\ lastSampleTime' = now
          /\ last' = [addSample |-> FALSE, events |-> <<"onPause">>]
          /\ pauseAt' = IF startedAt > 0 /\ ~stopCalled THEN now ELSE pauseAt
     ELSE /\ last' = [addSample |-> FALSE, events |-> <<>>]
          /\ UNCHANGED <<isPaused, lastSampleTime, pauseAt>>
  /\ UNCHANGED <<now, unit, splitDistance, startedAt, totalPausedTime, samples, laps, totals,
                 paceWindow, stopCalled, pausedSum>>

\* stop()
Stop ==
  /\ isPaused' = TRUE
  /\ totals' = updateTotals(totals, samples)
  /\ last' = [addSample |-> FALSE, events |-> <<>>]
  /\ stopCalled' = (stopCalled \/ startedAt > 0)
  /\ pauseAt' = IF stopCalled' THEN 0 ELSE pauseAt
  /\ pausedSum' = IF stopCalled' THEN 0 ELSE pausedSum
  /\ UNCHANGED <<now, unit, splitDistance, startedAt, totalPausedTime, samples, laps,
                 paceWindow, lastSampleTime>>

\* addSample(coords), the early return: nothing but the observer changes
Ignore ==
  /\ last' = [addSample |-> TRUE, events |-> <<>>]
  /\ UNCHANGED <<samples, laps, paceWindow, lastSampleTime>>

\* addSample(coords), past the early return: createSample, isValidSample, push,
\* updatePaceWindow, checkForSplit, onSample
Ingest(coords) ==
  LET sample == createSample(samples, coords, now)
  IN  IF isValidSample(samples, sample)
      THEN LET pushed == Append(samples, sample)
               upw    == updatePaceWindow(paceWindow, pushed, sample)
               ledger == [pushed EXCEPT ![Len(pushed)] = upw.sample]
               lps    == checkForSplit(laps, ledger, splitDistance, upw.sample)
           IN  /\ samples' = ledger
               /\ paceWindow' = upw.paceWindow
               /\ laps' = lps
               /\ last' = [addSample |-> TRUE,
                           events |-> IF Len(lps) > Len(laps)
                                      THEN <<"onSplit", "onSample">>
                                      ELSE <<"onSample">>]
               /\ lastSampleTime' = now
      ELSE Ignore

\* addSample with the pause test of its guard left out
AddSampleWhilePaused(coords) ==
  /\ Len(samples) < MaxSamples
  /\ IF startedAt = 0 THEN Ignore ELSE Ingest(coords)
  /\ UNCHANGED <<now, unit, splitDistance, startedAt, isPaused, totalPausedTime, totals, observer>>

\* addSample(coords)
AddSample(coords) ==
  /\ Len(samples) < MaxSamples
  /\ IF isPaused \/ startedAt = 0 THEN Ignore ELSE Ingest(coords)
  /\ UNCHANGED <<now, unit, splitDistance, startedAt, isPaused, totalPausedTime, totals, observer>>

\* The fixes addCoordinate is called with: degrees of latitude and longitude, metres of
\* accuracy; accuracy 0 stands for the falsy values (0 or the argument left out).
MaxLatitude == 90
MaxLongitude == 180
MaxCoordinateAccuracy == 30
Coordinates == {[lat |-> la, lon |-> lo, accuracy |-> a] :
                  la \in {0, 45, -91}, lo \in {0, 181}, a \in {0, 5, 40}}

\* `this.isRunning` inside addCoordinate: the class has a method of that name and no field,
\* so the expression is the function object, which is truthy whatever the session state.
isRunningMember == TRUE

\* `this.coordinates`: no member of that name is declared or assigned by the class.
coordinatesMember == "undefined"

\* addCoordinate(lat, lon, accuracy, speed): what the call ends with
addCoordinate(c) ==
  IF ~isRunningMember THEN "none"
  ELSE IF c.accuracy # 0 /\ c.accuracy > MaxCoordinateAccuracy THEN "none"
  ELSE IF Abs(c.lat) > MaxLatitude \/ Abs(c.lon) > MaxLongitude THEN "none"
  ELSE IF coordinatesMember = "undefined" THEN "TypeError"
  ELSE "none"

\* addCoordinate(lat, lon, accuracy, speed): it returns or raises before it writes anything
AddCoordinate(c) ==
  /\ raised' = addCoordinate(c)
  /\ last' = [addSample |-> FALSE, events |-> <<>>]
  /\ UNCHANGED <<now, session, paceWindow, lastSampleTime, observer>>

\* getStats(userProfile): refreshes the totals; the returned value is getStats
GetStats ==
  /\ totals' = updateTotals(totals, samples)
  /\ last' = [addSample |-> FALSE, events |-> <<>>]
  /\ UNCHANGED <<now, unit, splitDistance, startedAt, isPaused, totalPausedTime, samples, laps,
                 paceWindow, lastSampleTime, observer>>

\* reset() that leaves session.totalPausedTime as it is
ResetKeepPausedTime ==
  /\ splitDistance' = SplitFor(unit)
  /\ startedAt' = 0
  /\ isPaused' = FALSE
  /\ samples' = <<>>
  /\ laps' = <<>>
  /\ totals' = [distance |-> 0]
  /\ paceWindow' = <<>>
  /\ lastSampleTime' = 0
  /\ last' = [addSample |-> FALSE, events |-> <<>>]
  /\ stopCalled' = FALSE
  /\ pauseAt' = 0
  /\ pausedSum' = 0
  /\ UNCHANGED <<now, unit, totalPausedTime>>

\* reset()
Reset ==
  /\ splitDistance' = SplitFor(unit)
  /\ startedAt' = 0
  /\ isPaused' = FALSE
  /\ totalPausedTime' = 0
  /\ samples' = <<>>
  /\ laps' = <<>>
  /\ totals' = [distance |-> 0]
  /\ paceWindow' = <<>>
  /\ lastSampleTime' = 0
  /\ last' = [addSample |-> FALSE, events |-> <<>>]
  /\ stopCalled' = FALSE
  /\ pauseAt' = 0
  /\ pausedSum' = 0
  /\ UNCHANGED <<now, unit>>

\* setUnit(unit)
SetUnit(u) ==
  /\ unit' = u
  /\ splitDistance' = SplitFor(u)
  /\ last' = [addSample |-> FALSE, events |-> <<>>]
  /\ UNCHANGED <<now, startedAt, isPaused, totalPausedTime, samples, laps, totals,
                 paceWindow, lastSampleTime, observer>>

\* No run is being recorded for a replay.
NoRun == [phase |-> "off", script |-> <<>>, k |-> 0, base |-> 0,
          original |-> [totals |-> [distance |-> 0], laps |-> <<>>, stats |-> StatsOf(0, [distance |-> 0])]]

Next ==
  \/ Tick /\ UNCHANGED others
  \/ Start /\ UNCHANGED others
  \/ Resume /\ UNCHANGED others
  \/ Pause /\ UNCHANGED others
  \/ Stop /\ UNCHANGED others
  \/ \E coords \in Fixes : AddSample(coords) /\ UNCHANGED others
  \/ GetStats /\ UNCHANGED others
  \/ Reset /\ UNCHANGED others

\* The pages construct the tracker with unit 'km'.
Construct == ConstructWith("km")

\* A constructed tracker; no run is recorded.
Init ==
  /\ Platform(TRUE)
  /\ NewGPSTracker
  /\ NewElevationService("client", MaxLookups)
  /\ Construct
  /\ run = NoRun

Spec == Init /\ [][Next]_vars

\* ------------------------------------------------- a run, reset(), the same run again
Units == {"km", "mi"}

\* A call on the tracker, or the passing of TickMs between two calls.
Call(op, coords) == [op |-> op, coords |-> coords]
NoFix == [pos |-> 0, accuracy |-> 5]
Calls ==
  {Call(op, NoFix) : op \in {"tick", "start", "pause", "stop", "getStats"}}
    \cup {Call("addSample", coords) : coords \in Fixes}

\* The tracker performs the call c.
Perform(c) ==
  \/ c.op = "tick" /\ Tick
  \/ c.op = "start" /\ Start
  \/ c.op = "pause" /\ Pause
  \/ c.op = "stop" /\ Stop
  \/ c.op = "getStats" /\ GetStats
  \/ c.op = "addSample" /\ AddSample(c.coords)

\* What a run has produced, with instants counted from `base`, the instant the run began at:
\* the totals, the laps and the statistics getStats returns now.
Outcome(base) ==
  [totals |-> totals,
   laps   |-> [i \in 1..Len(laps) |-> [laps[i] EXCEPT !.timestamp = @ - base]],
   stats  |-> getStats]

\* The original run: a call on a tracker constructed at T0 (at most half of the clock's
\* range is used, the replay needs the other half).
Original ==
  /\ run.phase = "original"
  /\ Len(run.script) < MaxScript
  /\ \E c \in Calls :
       /\ c.op = "tick" => 2 * (now + TickMs - T0) <= MaxClock - T0
       /\ Perform(c)
       /\ run' = [run EXCEPT !.script = Append(@, c)]
  /\ UNCHANGED <<adapter, gpsTracker, fired, elevation>>

\* reset() ends the original run; its outcome is kept for the comparison.
ResetForReplay ==
  /\ run.phase = "original"
  /\ Reset
  /\ run' = [run EXCEPT !.phase = "replay", !.base = now, !.original = Outcome(T0)]
  /\ UNCHANGED <<adapter, gpsTracker, fired, elevation>>

\* The replay: the next call of the original run, at the same instant counted from reset().
Replay ==
  /\ run.phase = "replay"
  /\ run.k < Len(run.script)
  /\ Perform(run.script[run.k + 1])
  /\ run' = [run EXCEPT !.k = @ + 1]
  /\ UNCHANGED <<adapter, gpsTracker, fired, elevation>>

ReplayInit ==
  /\ Platform(TRUE)
  /\ NewGPSTracker
  /\ NewElevationService("client", MaxLookups)
  /\ \E u \in Units : ConstructWith(u)
  /\ run = [NoRun EXCEPT !.phase = "original", !.base = T0]

ReplayNext == Original \/ ResetForReplay \/ Replay

ReplaySpec == ReplayInit /\ [][ReplayNext]_vars

\* ------------------------------------------------ a GPSTracker in push mode
WatchInit ==
  /\ \E g \in BOOLEAN : Platform(g)
  /\ NewGPSTracker
  /\ NewElevationService("client", MaxLookups)
  /\ Construct
  /\ run = NoRun

WatchNext ==
  \/ \E options \in WatchOptions : StartWatching(options) /\ UNCHANGED <<tracker, run, elevation>>
  \/ \E watchId \in 1..Len(watches), coords \in RawFixes :
       Acquire(watchId, coords) /\ UNCHANGED <<tracker, run, elevation>>
  \/ Deliver /\ UNCHANGED <<tracker, run, elevation>>
  \/ Discard /\ UNCHANGED <<tracker, run, elevation>>
  \/ \E watchId \in 1..Len(watches), code \in ErrorCodes :
       OnWatchError(watchId, code) /\ UNCHANGED <<tracker, run, elevation>>
  \/ \E watchId \in 1..Len(watches) : StopWatching(watchId) /\ UNCHANGED <<tracker, run, elevation>>

WatchSpec == WatchInit /\ [][WatchNext]_vars

\* ---------------------------------------------- a GPSTracker in one-shot mode
FixInit ==
  /\ \E g \in BOOLEAN : Platform(g)
  /\ NewGPSTracker
  /\ NewElevationService("client", MaxLookups)
  /\ Construct
  /\ run = NoRun

FixNext ==
  \/ \E c \in 1..MaxCalls : GetCurrentPosition(c) /\ UNCHANGED <<tracker, run, elevation>>
  \/ \E c \in 1..MaxCalls, coords \in OneShotFixes : OnFix(c, coords) /\ UNCHANGED <<tracker, run, elevation>>
  \/ \E c \in 1..MaxCalls, code \in ErrorCodes : OnFixError(c, code) /\ UNCHANGED <<tracker, run, elevation>>
  \/ \E c \in 1..MaxCalls : OnTimeout(c) /\ UNCHANGED <<tracker, run, elevation>>
  \/ \E c \in 1..MaxCalls : OnRetry(c) /\ UNCHANGED <<tracker, run, elevation>>

FixSpec == FixInit /\ [][FixNext]_vars

\* A timer that is armed fires unless it is cleared first: the timeout timer of a pending
\* attempt (cleared by the platform's answer) and the retry timer.
FixFairness ==
  \A c \in 1..MaxCalls :
    /\ WF_vars(OnTimeout(c) /\ UNCHANGED <<tracker, run, elevation>>)
    /\ WF_vars(OnRetry(c) /\ UNCHANGED <<tracker, run, elevation>>)

FixFairSpec == FixInit /\ [][FixNext]_vars /\ FixFairness

\* ------------------------------------- the session engine with both ingesting calls
\* the sensor adapter and the platform, without the observer of exceptions
service == <<geolocation, status, lastAcceptedPosition, retryCount, watches, inflight,
             calls, positionUnavailable, forwarded>>

\* A call of the session engine that returns.
Returns == raised' = "none" /\ UNCHANGED <<run, service, gpsTracker, fired, elevation>>

IngestNext ==
  \/ Tick /\ UNCHANGED others
  \/ Start /\ Returns
  \/ Resume /\ Returns
  \/ Pause /\ Returns
  \/ Stop /\ Returns
  \/ \E coords \in Fixes : AddSample(coords) /\ Returns
  \/ \E c \in Coordinates : AddCoordinate(c) /\ UNCHANGED <<run, service, gpsTracker, fired, elevation>>
  \/ GetStats /\ Returns
  \/ Reset /\ Returns

IngestSpec == Init /\ [][IngestNext]_vars

\* ------------------------------------- the session engine with its unit switch
UnitNext ==
  \/ Tick /\ UNCHANGED others
  \/ Start /\ UNCHANGED others
  \/ Resume /\ UNCHANGED others
  \/ Pause /\ UNCHANGED others
  \/ Stop /\ UNCHANGED others
  \/ \E coords \in Fixes : AddSample(coords) /\ UNCHANGED others
  \/ GetStats /\ UNCHANGED others
  \/ Reset /\ UNCHANGED others
  \/ \E u \in Units : SetUnit(u) /\ UNCHANGED others

UnitSpec == Init /\ [][UnitNext]_vars

\* ------------------- the running page: its adapter in push mode, and the engine's statistics
PageInit ==
  /\ \E g \in BOOLEAN : Platform(g)
  /\ NewGPSTracker
  /\ NewElevationService("client", MaxLookups)
  /\ Construct
  /\ run = NoRun

PageNext ==
  \/ \E options \in WatchOptions : StartWatching(options) /\ UNCHANGED <<tracker, run, elevation>>
  \/ \E watchId \in 1..Len(watches), coords \in RawFixes :
       Acquire(watchId, coords) /\ UNCHANGED <<tracker, run, elevation>>
  \/ Deliver /\ UNCHANGED <<tracker, run, elevation>>
  \/ Discard /\ UNCHANGED <<tracker, run, elevation>>
  \/ \E watchId \in 1..Len(watches), code \in ErrorCodes :
       OnWatchError(watchId, code) /\ UNCHANGED <<tracker, run, elevation>>
  \/ \E watchId \in 1..Len(watches) : StopWatching(watchId) /\ UNCHANGED <<tracker, run, elevation>>
  \/ Start /\ UNCHANGED others
  \/ GetStats /\ UNCHANGED others

PageSpec == PageInit /\ [][PageNext]_vars

\* ------------------- the scenario of three fixes 0.009 degrees and 10 seconds apart
\* Longest time (in steps of 10 s) the clock of the scenario runs past construction
MaxScenarioTicks == 4

\* 10 s between two fixes of the scenario
ScenarioStepMs == 10 * 1000
\* calculateDistance(0, 0, 0, 0.009): 0.009 degrees of longitude on the equator with
\* R = 6371 km is 1000.754 m, held here to 5 cm (mm)
ScenarioStepMm == 1000750
\* the fixes (0, 0), (0, 0.009) and (0, 0.018), accuracy 5 m each
ScenarioFixes == [k \in 1..3 |-> [pos |-> (k - 1) * ScenarioStepMm, accuracy |-> 5]]

\* The scenario is followed as long as the only fixes offered are its own, in order, to a
\* running session, 10 s after one another: run.k counts the fixes fed so far (-1 once a
\* fix was offered otherwise), run.base is the instant of the first.
Followed(coords) ==
  IF /\ run.k >= 0 /\ run.k < 3
     /\ isRunning
     /\ coords = ScenarioFixes[run.k + 1]
     /\ IF run.k = 0 THEN Len(samples) = 0 ELSE now = run.base + run.k * ScenarioStepMs
  THEN [run EXCEPT !.k = @ + 1, !.base = IF run.k = 0 THEN now ELSE @]
  ELSE [run EXCEPT !.k = -1]

\* 10 s pass
ScenarioTick ==
  /\ now + ScenarioStepMs <= T0 + MaxScenarioTicks * ScenarioStepMs
  /\ now' = now + ScenarioStepMs
  /\ UNCHANGED <<session, paceWindow, lastSampleTime, last, observer>>

\* addSample(coords) with one of the scenario's fixes
Feed(coords) ==
  /\ AddSample(coords)
  /\ run' = Followed(coords)

ScenarioInit ==
  /\ Platform(TRUE)
  /\ NewGPSTracker
  /\ NewElevationService("client", MaxLookups)
  /\ Construct
  /\ run = [NoRun EXCEPT !.phase = "scenario"]

ScenarioNext ==
  \/ ScenarioTick /\ UNCHANGED others
  \/ Start /\ UNCHANGED others
  \/ \E k \in 1..3 : Feed(ScenarioFixes[k]) /\ UNCHANGED <<adapter, gpsTracker, fired, elevation>>
  \/ GetStats /\ UNCHANGED others

ScenarioSpec == ScenarioInit /\ [][ScenarioNext]_vars

\* ------------------------------ an ElevationService, the client's or the server's
ElevationInit ==
  /\ Platform(TRUE)
  /\ NewGPSTracker
  /\ \E s \in Sides : NewElevationService(s, MaxLookups)
  /\ Construct
  /\ run = NoRun

ElevationNext ==
  \/ \E c \in DOMAIN lookups, points \in ElevRequests :
       GetElevations(c, points) /\ UNCHANGED <<tracker, run, adapter>>
  \/ \E c \in DOMAIN lookups : AwaitPending(c) /\ UNCHANGED <<tracker, run, adapter>>
  \/ \E f \in 1..Len(fetches), ok \in BOOLEAN : Respond(f, ok) /\ UNCHANGED <<tracker, run, adapter>>
  \/ \E f \in 1..Len(fetches) : RetryRequest(f) /\ UNCHANGED <<tracker, run, adapter>>
  \/ ClearCache /\ UNCHANGED <<tracker, run, adapter>>

ElevationSpec == ElevationInit /\ [][ElevationNext]_vars

\* ------------------------- the client's ElevationService under overlapping getElevations calls
OverlapInit ==
  /\ Platform(TRUE)
  /\ NewGPSTracker
  /\ NewElevationService("client", MaxOverlap)
  /\ Construct
  /\ run = NoRun

OverlapNext ==
  \/ \E c \in DOMAIN lookups, points \in ElevRequests :
       GetElevations(c, points) /\ UNCHANGED <<tracker, run, adapter>>
  \/ \E c \in DOMAIN lookups : AwaitPending(c) /\ UNCHANGED <<tracker, run, adapter>>
  \/ \E f \in 1..Len(fetches), ok \in BOOLEAN : Respond(f, ok) /\ UNCHANGED <<tracker, run, adapter>>

OverlapSpec == OverlapInit /\ [][OverlapNext]_vars

\* ------------------------------------------- the onPause and onResume events of a session
\* The call of this step fired the event e.
Fires(e) == \E i \in DOMAIN last'.events : last'.events[i] = e

\* The observer follows the onPause and onResume callbacks that the call of this step fires.
ObserveEvents ==
  fired' = IF Fires("onPause") THEN "onPause"
           ELSE IF Fires("onResume") THEN "onResume"
           ELSE fired

\* what the calls of the session engine leave alone, the observer of its events apart
quiet == <<run, adapter, gpsTracker, elevation>>

\* The calls of Next, the events they fire being observed; reset() starts a new history.
EventNext ==
  \/ Tick /\ UNCHANGED others
  \/ Start /\ ObserveEvents /\ UNCHANGED quiet
  \/ Resume /\ ObserveEvents /\ UNCHANGED quiet
  \/ Pause /\ ObserveEvents /\ UNCHANGED quiet
  \/ Stop /\ ObserveEvents /\ UNCHANGED quiet
  \/ \E coords \in Fixes : AddSample(coords) /\ ObserveEvents /\ UNCHANGED quiet
  \/ GetStats /\ ObserveEvents /\ UNCHANGED quiet
  \/ Reset /\ fired' = "none" /\ UNCHANGED quiet

EventSpec == Init /\ [][EventNext]_vars

TypeOK ==
  /\ now \in T0..MaxClock
  /\ Len(samples) <= MaxSamples
  /\ Len(laps) <= Len(samples)

\* ------------------------------------------------------------- properties
LastSample == samples[Len(samples)]

\* The lifecycle state of the specification's state machine, read off the session:
\* stopped once stop() was called on a started session and it is not running.
Phase ==
  IF stopCalled /\ isPaused THEN "stopped"
  ELSE IF isPaused THEN "paused"
  ELSE IF startedAt = 0 THEN "idle"
  ELSE "running"

Edges == {<<"idle", "running">>, <<"running", "paused">>, <<"paused", "running">>,
          <<"running", "stopped">>, <<"paused", "stopped">>}

\* The timestamps of the ledger are strictly increasing (no two samples in the same millisecond).
DistinctInstants == \A i \in 1..(Len(samples) - 1) : samples[i].timestamp < samples[i + 1].timestamp

\* C1: a fix offered to addSample while the session is not running (idle, paused or
\* stopped) changes neither the samples, the laps nor the totals, and fires no event.
C1_IgnoredUnlessRunning ==
  [][(~isRunning /\ \E coords \in Fixes : AddSample(coords))
       => (UNCHANGED <<samples, laps, totals>> /\ last'.events = <<>>)]_vars

\* C1 witness: addSample was just offered to a paused session that holds samples, and was ignored.
C1_Witness ==
  /\ last.addSample /\ last.events = <<>>
  /\ isPaused /\ startedAt > 0 /\ Len(samples) > 0 /\ Len(samples) < MaxSamples

\* C2: once stop() has been called on a started session, and until reset(), no sample is
\* accepted and the session never reports itself running.
C2_StoppedIsTerminal ==
  [][(stopCalled /\ stopCalled') => (~isRunning' /\ samples' = samples)]_vars

\* C3: the session moves only along idle -> running, running -> paused, paused -> running,
\* running|paused -> stopped and any -> idle; pause() or stop() on an idle session leaves it idle.
C3_OnlySpecifiedEdges ==
  [][Phase' = Phase \/ <<Phase, Phase'>> \in Edges \/ Phase' = "idle"]_vars

\* C4: the duration reported by getStats does not advance inside a pause interval.
C4_PausedDurationFrozen ==
  [][(pauseAt > 0 /\ pauseAt' = pauseAt /\ ~stopCalled')
       => getStats'.duration = getStats.duration]_vars

\* C5: in a running session that was never stopped, the duration reported by getStats is the
\* time since startedAt minus the sum of the pause intervals (from each pause() to the
\* start()/resume() that ended it).
C5_DurationExcludesPauses ==
  (isRunning /\ ~stopCalled)
    => getStats.duration = RoundDiv(now - startedAt - pausedSum, 6000)

\* C5 witness: a running session that went through a pause of non-zero length and has run
\* on for a while since.
C5_Witness ==
  /\ isRunning /\ ~stopCalled
  /\ pausedSum >= TickMs
  /\ now - startedAt > pausedSum

\* C6: after stop(), every later getStats reports the distance, duration, lap count and
\* sample count it reported at the moment of stop().
C6_StopFreezes ==
  [][(stopCalled /\ stopCalled')
       => /\ getStats'.distance = getStats.distance
          /\ getStats'.duration = getStats.duration
          /\ getStats'.totalLaps = getStats.totalLaps
          /\ getStats'.coordinatesCount = getStats.coordinatesCount]_vars

\* C7: the number of laps is floor(last cumulative distance / split distance)
\* (stated for ledgers whose samples were taken at distinct instants).
C7_LapCount ==
  (Len(samples) > 0 /\ DistinctInstants)
    => Len(laps) = LastSample.cumulativeDistance \div splitDistance

\* C8: each lap's end sample has reached lap index x split distance, and the previous lap's
\* end sample (the session start for the first lap) is strictly below it
\* (stated for ledgers whose samples were taken at distinct instants).
C8_LapThresholds ==
  DistinctInstants =>
    \A i \in 1..Len(laps) :
      LET threshold == laps[i].index * splitDistance
          prevEnd   == IF i = 1 THEN 0 ELSE samples[laps[i - 1].endSampleIndex + 1].cumulativeDistance
      IN  /\ samples[laps[i].endSampleIndex + 1].cumulativeDistance >= threshold
          /\ prevEnd < threshold

\* C9: each lap starts right after the previous lap's end (at 0 for the first lap), ends at
\* the first sample that reaches its threshold, and its distance and duration are those
\* between its start and end samples
\* (stated for ledgers whose samples were taken at distinct instants).
C9_LapBounds ==
  DistinctInstants =>
    \A i \in 1..Len(laps) :
      LET lap == laps[i]
          s0 == samples[lap.startSampleIndex + 1]
          s1 == samples[lap.endSampleIndex + 1]
      IN  /\ lap.startSampleIndex = IF i = 1 THEN 0 ELSE laps[i - 1].endSampleIndex + 1
          /\ lap.endSampleIndex = FirstReaching(samples, lap.index * splitDistance)
          /\ lap.distance = s1.cumulativeDistance - s0.cumulativeDistance
          /\ lap.duration * 1000 = s1.timestamp - s0.timestamp

\* The fix coords, offered now, lies farther from the last sample than 50 km/h allows in the
\* time elapsed since that sample: 3.6 * mm / ms > 50.
OverCeiling(coords) ==
  9 * calculateDistance(LastSample.pos, coords.pos) > 125 * (now - LastSample.timestamp)

\* C10: in a running session with at least one sample, a fix implying more than 50 km/h is
\* rejected whatever the elapsed time: the ledger (sample count, cumulative distance) is unchanged.
C10_OverCeilingRejected ==
  [][(isRunning /\ Len(samples) > 0
        /\ \E coords \in Fixes : OverCeiling(coords) /\ AddSample(coords))
       => samples' = samples]_vars

\* C11: no sample of the ledger has a reported accuracy above the 30 m ceiling, the first
\* sample of a session included.
C11_NoInaccurateSample ==
  \A i \in 1..Len(samples) : samples[i].accuracy <= MaxAccuracy

\* C12: in every state the session's totals.distance is the cumulative distance of the last
\* sample (0 with no samples), also right after addSample and before any getStats or stop.
C12_TotalsFollowLedger ==
  totals.distance = IF Len(samples) = 0 THEN 0 ELSE LastSample.cumulativeDistance

\* C13: the first sample's cumulative distance is 0, each later sample's cumulative distance
\* is its predecessor's plus the great-circle distance between the two samples, and the
\* cumulative distance never decreases along the ledger.
C13_CumulativeDistance ==
  /\ Len(samples) > 0 => samples[1].cumulativeDistance = 0
  /\ \A i \in 1..(Len(samples) - 1) :
       /\ samples[i + 1].cumulativeDistance
            = samples[i].cumulativeDistance + calculateDistance(samples[i].pos, samples[i + 1].pos)
       /\ samples[i + 1].cumulativeDistance >= samples[i].cumulativeDistance

\* C13 witness: three accepted samples, the runner went out 1 km and came back to the
\* position of the first sample: 2 km run, no net displacement.
C13_Witness ==
  /\ Len(samples) = 3
  /\ samples[3].pos = samples[1].pos
  /\ samples[2].pos # samples[1].pos
  /\ samples[3].cumulativeDistance = 2 * calculateDistance(samples[1].pos, samples[2].pos)

\* C14: right after reset() the session is the session a constructor call with the same
\* unit builds (no samples, no laps, zero totals, not started, not paused, empty pace
\* window), and once the calls of the original run have been replayed at the same instants
\* counted from reset(), the totals, the laps and the statistics are those of the original run.
C14_ResetThenReplay ==
  /\ (run.phase = "replay" /\ run.k = 0) =>
       /\ splitDistance = SplitFor(unit)
       /\ startedAt = 0 /\ ~isPaused /\ totalPausedTime = 0
       /\ samples = <<>> /\ laps = <<>> /\ totals = [distance |-> 0]
       /\ paceWindow = <<>> /\ lastSampleTime = 0
  /\ (run.phase = "replay" /\ run.k = Len(run.script)) => Outcome(run.base) = run.original

\* C14 witness: the replay of a run in miles that recorded a lap and ended with a
\* distance in its totals is complete.
C14_Witness ==
  /\ run.phase = "replay" /\ run.k = Len(run.script)
  /\ unit = "mi"
  /\ Len(run.original.laps) > 0
  /\ run.original.totals.distance > 0

\* The delivery whose callback task is queued, with the options of its watch.
Queued == Head(inflight)
QueuedOptions == watches[Queued.watch].options

\* C15: a raw fix delivered to a watch is handed to the callback if and only if its accuracy
\* is within the watch's accuracy threshold and it lies at least the minimum-movement
\* distance from the last fix the adapter handed to a callback (if there is one); a fix that
\* is not handed over changes neither lastAcceptedPosition nor the status and raises nothing.
C15_ForwardedIffAccurateAndMoved ==
  [][(inflight # <<>> /\ Deliver) =>
       /\ forwarded'.outcome = "handed" <=>
            /\ Queued.coords.accuracy <= QueuedOptions.accuracyThreshold
            /\ \/ forwarded.fix = NoPosition
               \/ calculateDistance(forwarded.fix.pos, Queued.coords.pos) >= QueuedOptions.distanceFilter
       /\ forwarded'.outcome = "handed" =>
            (forwarded'.fix = Queued.coords /\ forwarded'.watch = Queued.watch)
       /\ forwarded'.outcome # "handed" =>
            (UNCHANGED <<lastAcceptedPosition, status>> /\ raised' = "none")]_vars

\* C15 witness: an accurate fix was just dropped because it lies closer than the minimum
\* movement to the fix handed over before it, which is still the last accepted position.
C15_Witness ==
  /\ forwarded.outcome = "skipped" /\ forwarded.fix # NoPosition
  /\ inflight = <<>>
  /\ lastAcceptedPosition = forwarded.fix
  /\ \E w \in 1..Len(watches) : watches[w].accurateSeen /\ ~watches[w].cleared
  /\ status.signalQuality = "excellent" /\ status.isTracking

\* C16: the first fix with an accuracy within the threshold that is delivered to a watch in
\* force is handed to the callback wherever it lies, also on a watch started after an
\* earlier watch of the same adapter was stopped.
C16_FirstFixForwarded ==
  [][(/\ inflight # <<>> /\ Deliver
      /\ ~watches[Queued.watch].cleared
      /\ ~watches[Queued.watch].accurateSeen
      /\ Queued.coords.accuracy <= QueuedOptions.accuracyThreshold)
       => forwarded'.outcome = "handed"]_vars

\* C17: a watch callback is never invoked for a watch that stopWatching was called on, also
\* when the position was acquired before the call; and stopWatching on a watch that was
\* already stopped changes nothing in the adapter.
C17_NoCallbackAfterStop ==
  [][/\ (inflight # <<>> /\ Deliver /\ forwarded'.outcome = "handed")
          => ~watches[Queued.watch].cleared
     /\ \A watchId \in 1..Len(watches) :
          (watches[watchId].cleared /\ ~status.isTracking /\ StopWatching(watchId))
            => UNCHANGED <<status, lastAcceptedPosition, retryCount, watches, inflight>>]_vars

\* C18: every getCurrentPosition call makes at most 1 + maxRetries requests to the platform,
\* whatever other calls are made on the adapter before it or while it is pending, and a
\* call that resolves with a fix less accurate than the threshold has made all of them.
C18_AtMostFourAttempts ==
  \A c \in 1..MaxCalls :
    /\ calls[c].attempts <= 1 + maxRetries
    /\ (calls[c].settled = "resolved"
          /\ calls[c].result.accuracy > DefaultOptions.accuracyThreshold)
         => calls[c].attempts = 1 + maxRetries

\* The promise of a call rejects with the error that matches what the platform did:
\* Unavailable at once and always when there is no navigator.geolocation, and otherwise
\* only after the platform reported the position unavailable (never because of a refused
\* permission or a timeout); PermissionDenied exactly when the request that ended the call
\* was refused; Timeout exactly when it timed out or no answer came before the timer fired.
ErrorsMatchPlatform ==
  \A c \in 1..MaxCalls :
    LET call == calls[c]
    IN  /\ (~geolocation /\ call.phase # "idle") => (call.settled = "Unavailable" /\ call.attempts = 0)
        /\ call.settled = "Unavailable" => (~geolocation \/ positionUnavailable)
        /\ call.settled = "PermissionDenied" <=> call.cause = "PERMISSION_DENIED"
        /\ call.settled = "Timeout" <=> call.cause \in {"TIMEOUT", "timer"}

\* Every getCurrentPosition call that was made has settled (a settled promise stays settled).
AllSettled == \A c \in 1..MaxCalls : calls[c].phase # "idle" => calls[c].settled # "no"

\* C19: every getCurrentPosition call that was made settles eventually, and a call that
\* fails rejects with the error that matches what the platform did (ErrorsMatchPlatform).
C19_SettlesWithMatchingError ==
  /\ []ErrorsMatchPlatform
  /\ <>[]AllSettled

\* C19 witness: the first call was refused by the platform on all its four requests and
\* rejected with PermissionDenied; the second call, made later, resolved with a fix.
C19_Witness ==
  /\ calls[1].settled = "PermissionDenied" /\ calls[1].attempts = 1 + maxRetries
  /\ calls[2].settled = "resolved"
  /\ status.hasPermission

\* C20: no ingesting call of the session engine (addSample, addCoordinate) and no lap or stat
\* computation ever raises an exception, whatever the fix and the session state.
C20_NothingRaises == raised = "none"

\* The track of the modelled positions runs north along a meridian and crosses latitude 90:
\* NorthPole is the position (mm along the track) where the latitude reported by a fix
\* reaches 90; the haversine distance along a meridian stays the difference of positions.
NorthPole == 2000 * 1000

\* Math.abs(lat) > 90 || Math.abs(lon) > 180 for a fix on the track
OutOfRange(coords) == coords.pos > NorthPole

\* C21: a fix whose latitude or longitude is out of range, offered to a running session by
\* addSample or addCoordinate, leaves the sample sequence (and so the cumulative distance)
\* unchanged.
C21_OutOfRangeRejected ==
  [][(isRunning
        /\ \/ \E coords \in Fixes : OutOfRange(coords) /\ AddSample(coords)
           \/ \E c \in Coordinates :
                /\ Abs(c.lat) > MaxLatitude \/ Abs(c.lon) > MaxLongitude
                /\ AddCoordinate(c))
       => samples' = samples]_vars

\* C22: no operation changes the unit or the split distance of a session that holds samples
\* or laps without also resetting its ledger and totals.
C22_SplitDistanceFixed ==
  [][((Len(samples) > 0 \/ Len(laps) > 0)
        /\ (unit' # unit \/ splitDistance' # splitDistance))
       => (samples' = <<>> /\ laps' = <<>> /\ totals'.distance = 0)]_vars

\* The smoothed pace held by the ledger before sample i: that of the latest earlier sample
\* that has one, and the seed (the instant pace of sample i itself) when there is none.
PreviousSmoothed(i) ==
  LET earlier == {j \in 1..(i - 1) : Truthy(samples[j].smoothedPace)}
  IN  IF earlier = {} THEN samples[i].instantPace
      ELSE samples[CHOOSE j \in earlier : \A k \in earlier : k <= j].smoothedPace

\* C23: the smoothed pace of every sample with an instant pace is 0.3 x its instant pace
\* + 0.7 x the smoothed pace before it, the first one being seeded with the first instant pace.
C23_SmoothedIsMovingAverage ==
  \A i \in 1..Len(samples) :
    Truthy(samples[i].instantPace)
      => samples[i].smoothedPace = Ema(samples[i].instantPace, PreviousSmoothed(i))

\* C24: the gpsQuality that getStats returns is the signal quality currently held by the
\* adapter that delivers the session's fixes (excellent after it accepted a fix of 5 m, ...).
C24_QualityPassthrough == getStats.gpsQuality = status.signalQuality

\* C25 as stated: in the scenario a lap of about 1 km and 10 s is emitted after the second
\* fix, and a second lap after the third fix.
C25_ScenarioLaps ==
  /\ run.k = 2 => (Len(laps) = 1 /\ laps[1].duration * 1000 = ScenarioStepMs)
  /\ run.k = 3 => Len(laps) = 2

\* C25, amended: in the scenario the second and the third fix are rejected (each implies
\* 360 km/h from the last sample, the first fix): the ledger holds the first fix alone and
\* no lap is emitted.
C25_ScenarioRejected ==
  run.k >= 1 => /\ Len(samples) = 1
                /\ samples[1].pos = ScenarioFixes[1].pos /\ samples[1].timestamp = run.base
                /\ laps = <<>>

\* C25 witness: the three fixes of the scenario were fed, the third just now.
C25_Witness ==
  /\ run.k = 3 /\ now = run.base + 2 * ScenarioStepMs
  /\ last.addSample /\ isRunning

\* A coordinate rounded to 4 decimal places (in units of 0.0001 degree)
Rounded4(p) == CHOOSE k \in 0..(p \div 10 + 1) : 10 * k - 5 <= p /\ p < 10 * k + 5

\* A lookup has succeeded, since the cache was last cleared, for a point with the rounded
\* coordinates of p; Cached(p) is the set of elevations those lookups gave.
Covered(p) == \E q \in known : Rounded4(q) = Rounded4(p)
Cached(p) == {ElevationAt(q) : q \in {r \in known : Rounded4(r) = Rounded4(p)}}

\* The points of a sequence of points
PointsOf(pts) == {pts[i] : i \in 1..Len(pts)}

\* C26: once a lookup has succeeded for a point, a later getElevations call for a point with
\* the same coordinates rounded to 4 decimals is answered from the cache and sends no request
\* for it; a failed lookup leaves the cache as it is and the call returns the default elevation.
C26_CachedByRoundedKey ==
  [][/\ \A c \in DOMAIN lookups, points \in ElevRequests :
          GetElevations(c, points) =>
            \A p \in PointsOf(points) :
              Covered(p) =>
                /\ p \notin PointsOf(lookups'[c].pointsToFetch)
                /\ \A i \in 1..Len(lookups'[c].pendingPromises) : lookups'[c].pendingPromises[i].point # p
                /\ \E i \in 1..Len(lookups'[c].results) :
                     /\ lookups'[c].results[i].point = p
                     /\ lookups'[c].results[i].elevation \in Cached(p)
     /\ Len(fetches') > Len(fetches) =>
          LET sent == fetches'[Len(fetches')]
          IN  sent.points = lookups'[sent.owner].pointsToFetch
     /\ \A f \in 1..Len(fetches) :
          Respond(f, TRUE) => \A p \in PointsOf(fetches[f].points) : Covered(p)'
     /\ \A f \in 1..Len(fetches) :
          Respond(f, FALSE) =>
            /\ cache' = cache
            /\ known' = known
            /\ fetches'[f].state = "failed" =>
                 LET done == lookups'[fetches[f].owner]
                 IN  /\ done.phase = "returned"
                     /\ \A p \in PointsOf(fetches[f].points) :
                          \E i \in 1..Len(done.results) :
                            done.results[i] = [point |-> p, elevation |-> 0]]_vars

\* C26 witness: after a lookup of point 0 succeeded, a call for the points 4 and 12 has
\* returned: point 4 (same rounded coordinates as 0) with the cached elevation of 0 and
\* without a request, point 12 with the default elevation, its request having failed.
C26_Witness ==
  \E c \in DOMAIN lookups :
    /\ lookups[c].phase = "returned"
    /\ lookups[c].points = <<4, 12>>
    /\ lookups[c].results = <<[point |-> 4, elevation |-> ElevationAt(0)],
                              [point |-> 12, elevation |-> 0]>>
    /\ \A f \in 1..Len(fetches) : 4 \notin PointsOf(fetches[f].points)
    /\ \E f \in 1..Len(fetches) : fetches[f].state = "failed" /\ fetches[f].owner = c

\* The requests with the API that carry a point with rounded coordinates k
InFlightFor(k) ==
  {f \in 1..Len(fetches) :
     /\ fetches[f].state = "inflight"
     /\ \E p \in PointsOf(fetches[f].points) : Rounded4(p) = k}

\* C30: whatever the interleaving of getElevations calls on the client's service, at most
\* one request is with the API for a given rounded cache key at any time.
C30_OneFetchPerKey ==
  \A p \in ElevPoints : Cardinality(InFlightFor(Rounded4(p))) <= 1

\* C27: the accumulated paused time never exceeds the time elapsed since startedAt, so the
\* duration that getStats computes (now - startedAt - totalPausedTime) is never negative.
C27_PausedWithinElapsed ==
  startedAt > 0 => totalPausedTime <= now - startedAt

\* C28: onPause and onResume strictly alternate, starting with onPause: onResume fires only
\* when an onPause has fired since the last onResume (or since construction/reset), and
\* onPause fires only while the session is running.
C28_PauseResumeAlternate ==
  [][/\ (Start /\ Fires("onResume")) => fired = "onPause"
     /\ (Pause /\ Fires("onPause")) => (isRunning /\ fired # "onPause")]_vars

\* C29: the laps carry the indices 1, 2, ..., n in order, none repeated or skipped; every lap
\* has startSampleIndex <= endSampleIndex; the sample ranges of successive laps do not overlap.
C29_LapsWellFormed ==
  /\ \A i \in 1..Len(laps) :
       /\ laps[i].index = i
       /\ laps[i].startSampleIndex <= laps[i].endSampleIndex
  /\ \A i \in 1..(Len(laps) - 1) : laps[i].endSampleIndex < laps[i + 1].startSampleIndex

====
